---- MODULE Spec2Model ----
(***************************************************************************)
(* A model of trivia_bot.py: the score store and its CSV backup, the       *)
(* leaderboard commands, the Twitch -> Discord mapping table, the command  *)
(* dispatch with its role checks and error handler, the champion role      *)
(* update, the weekly timer, the score snapshots and session scores, the   *)
(* Twitch and YouTube polls, the lock taken at the start of a process, the *)
(* pages of a leaderboard message and the cached database connection.      *)
(*                                                                         *)
(* A handler is a coroutine: it runs without interruption from one await   *)
(* to the next.  Every action below is one such synchronous section; a     *)
(* handler that awaits in the middle of its work is a sequence of actions  *)
(* linked by its program counter pc[h].                                    *)
(***************************************************************************)
EXTENDS Integers, Sequences, FiniteSets, TLC

VARIABLES
    scores,          \* rows of the external table user_scores
    csvFile,         \* SCORES_FILE: [exists, readable, cols, rows]
    obs,             \* what the last score command read and showed
    user_mapping,    \* rows of the table user_mapping, in insertion order
    lastWrite,       \* per Twitch username, the Discord ID last written for it
    mapObs,          \* the last operation on user_mapping and what it returned
    score_snapshots, \* rows of the table score_snapshots
    guild,           \* what the bot finds: the guild, its champion roles, the channel
    memberRoles,     \* per guild member, the roles the member holds
    pc,              \* per handler, the await at which it is suspended, or "idle"
    run,             \* per handler, the locals and the record of its role update
    inv,             \* the command handled last: who invoked it and how it ended
    sent,            \* the messages sent to the invoking channel for that command
    effects,         \* what the body of that command touched outside the chat
    budget,          \* commands that may still be handled
    now,             \* datetime.now(), to the minute: [weekday, hour, minute]
    ticked,          \* the timer loop has run its iteration of this minute
    announced,       \* 'Weekly Update Complete' messages sent in this week
    weekly,          \* the weekly updates of this week: [count, whole, past, times, snapshot]
    live_status,     \* TWITCH_LIVE_STATUS_FILE: per channel, the status saved
    twitch_log,      \* per channel, what the polls observed and notified, in order
    last_video,      \* LAST_VIDEO_ID_FILE: the ID it holds, or None when absent
    youtube_log,     \* the IDs of the videos notified, in order
    instance,        \* per started process, how far its start has come
    flock,           \* the process that holds the lock on trivia_bot.lock, or None
    view,            \* the LeaderboardView of the message last sent, and the last click
    db_connection,   \* the global db_connection: the handle cached, or None
    db_socket,       \* the socket of the cached handle: "none", "open" or "closed"
    dbObs            \* the last call of the database helpers and what it did

scoreVars == <<scores, csvFile, obs>>
mapVars == <<user_mapping, lastWrite, mapObs>>
snapVars == <<score_snapshots>>
roleVars == <<guild, memberRoles, pc, run>>
cmdVars == <<inv, sent, effects, budget>>
clockVars == <<now, ticked, announced, weekly>>
feedVars == <<live_status, twitch_log, last_video, youtube_log>>
procVars == <<instance, flock>>
viewVars == <<view>>
connVars == <<db_connection, db_socket, dbObs>>
vars == <<scoreVars, mapVars, snapVars, roleVars, cmdVars, clockVars, feedVars, procVars,
         viewVars, connVars>>

(***************************************************************************)
(* Bounds and input domains                                                *)
(***************************************************************************)
MaxRows == 2        \* rows of user_scores
MaxCsvRows == 1     \* rows of a CSV file found at start
MaxImportRows == 2  \* rows of an imported mappings file

Users == {"u1", "u2"}
UserSeq == <<"u1", "u2">>             \* the usernames in ascending order
ScoreValues == {1, 2}
\* lastUpdated as <<day, time of day>>
Dates == {<<1, 0>>, <<2, 0>>, <<2, 1>>}

None == "None"
DiscordIds == {"d1", "d2", "d3"}      \* IDs as stored: strings of digits
Members == {"d1", "d2"}               \* the IDs of the guild's members
MemberSeq == <<"d1", "d2">>           \* guild.members, in the order of the loop

Rows == [Username : Users, Score : ScoreValues, RecentDate : Dates]

RECURSIVE SeqsUpTo(_, _)
SeqsUpTo(S, n) ==
    IF n = 0 THEN {<<>>}
    ELSE LET shorter == SeqsUpTo(S, n - 1)
         IN  shorter \cup {Append(s, x) : s \in {t \in shorter : Len(t) = n - 1}, x \in S}

Tables == SeqsUpTo(Rows, MaxRows)
CsvTables == SeqsUpTo(Rows, MaxCsvRows)

(***************************************************************************)
(* DataFrames: the column names that the code tests for, and the rows.     *)
(***************************************************************************)
DbCols == {"id", "Score", "RecentDate", "FirstDate", "Username"}
LegacyCols == {"Username", "Month", "Score"}

DataFrame(cols, rows) == [cols |-> cols, rows |-> rows]
EmptyDataFrame == DataFrame({}, <<>>)
IsEmpty(df) == df.rows = <<>>

\* a < b on <<day, time>>
DateLess(a, b) == a[1] < b[1] \/ (a[1] = b[1] /\ a[2] < b[2])

\* Series.max() over timestamps
MaxDate(S) == CHOOSE m \in S : \A x \in S : ~DateLess(m, x)

Range(s) == {s[i] : i \in DOMAIN s}

\* DataFrame.sort_values(by='Score', ascending=False) with the default,
\* unstable sort: every descending order of the rows is a possible result.
SortValuesDesc(rows) ==
    LET n == Len(rows)
        perms == {p \in [1..n -> 1..n] : \A i, j \in 1..n : i # j => p[i] # p[j]}
    IN  {[i \in 1..n |-> rows[p[i]]] : p \in
            {q \in perms : \A i, j \in 1..n : i < j => rows[q[i]].Score >= rows[q[j]].Score}}

RECURSIVE SumScores(_)
SumScores(rows) ==
    IF rows = <<>> THEN 0 ELSE Head(rows).Score + SumScores(Tail(rows))

RowsOf(rows, u) == SelectSeq(rows, LAMBDA r : r.Username = u)

\* groupby('Username')['Score'].sum().reset_index(): one row per user, in
\* ascending order of the key, holding only the key and the sum.
RECURSIVE GroupBySum(_, _)
GroupBySum(rows, users) ==
    IF users = <<>> THEN <<>>
    ELSE LET u == Head(users)
             rest == GroupBySum(rows, Tail(users))
         IN  IF RowsOf(rows, u) = <<>> THEN rest
             ELSE <<[Username |-> u, Score |-> SumScores(RowsOf(rows, u))]>> \o rest

\* What an embed shows of a row: the name and the score
Entry(r) == [Username |-> r.Username, Score |-> r.Score]
Entries(rows) == [i \in DOMAIN rows |-> Entry(rows[i])]

(***************************************************************************)
(* The score store                                                         *)
(***************************************************************************)
\* What execute_db_query hands back: ok = FALSE is its None (no connection,
\* or the query raised), otherwise the rows fetched.
QueryFailed == [ok |-> FALSE, rows |-> <<>>]
QueryRows(rows) == [ok |-> TRUE, rows |-> rows]
\* `if not results`: None and the empty list alike
NoResults(res) == ~res.ok \/ res.rows = <<>>

NoFile == [exists |-> FALSE, readable |-> FALSE, cols |-> {}, rows |-> <<>>]
CsvFile(cols, rows) == [exists |-> TRUE, readable |-> TRUE, cols |-> cols, rows |-> rows]

\* pd.read_csv(SCORES_FILE) guarded by os.path.exists, inside a try: the
\* frame read, or nothing when the file is missing or the read raises.
\* A timestamp written by to_csv is read back as a string of fixed width,
\* whose order is the order of the timestamps: RecentDate stays <<day, time>>.
ReadCsv(csv) ==
    IF csv.exists /\ csv.readable THEN DataFrame(csv.cols, csv.rows) ELSE EmptyDataFrame

\* get_scores_from_external_db: the frame returned and the file afterwards.
\* res is the outcome of the query, writeOk whether df.to_csv succeeds.
get_scores_from_external_db(res, csv, writeOk) ==
    IF NoResults(res)
    THEN [df |-> ReadCsv(csv), csv |-> csv]
    ELSE [df |-> DataFrame(DbCols, res.rows),
          csv |-> IF writeOk THEN CsvFile(DbCols, res.rows) ELSE csv]

\* The rows of the most recent calendar date (the time of day is dropped)
MostRecentDay(rows) ==
    LET days == {r.RecentDate[1] : r \in Range(rows)}
    IN  CHOOSE m \in days : \A x \in days : x <= m
RecentByDay(rows) ==
    IF rows = <<>> THEN <<>>
    ELSE SelectSeq(rows, LAMBDA r : r.RecentDate[1] = MostRecentDay(rows))

NoScoresMessage == "No scores available!"
ViewReply == "view"

\* The frame a leaderboard command works on: the one get_scores returned,
\* or, when that is empty, a second direct read of the CSV file.
CommandFrame(got, csv) == IF IsEmpty(got) THEN ReadCsv(csv) ELSE got

\* leaderboard: the rows handed to LeaderboardView, before the sort
LeaderboardRows(df) ==
    IF "RecentDate" \in df.cols THEN RecentByDay(df.rows) ELSE df.rows

\* total_leaderboard: the rows handed to LeaderboardView, before the sort
TotalLeaderboardRows(df) ==
    IF "Month" \in df.cols THEN GroupBySum(df.rows, UserSeq) ELSE Entries(df.rows)

\* What a score command did: the outcome res of its query, the CSV file it
\* found, the frame df that get_scores_from_external_db returned, the frame
\* the command went on with, its reply and the entries of the view it sent.
Observation(op, res, csvBefore, got, frame, reply, shown) ==
    [op |-> op, res |-> res, csvBefore |-> csvBefore, df |-> got, frame |-> frame,
     reply |-> reply, shown |-> shown]

NoObservation ==
    Observation("none", QueryFailed, NoFile, EmptyDataFrame, EmptyDataFrame, "none", <<>>)

\* ?leaderboard
leaderboard ==
    \E dbOk \in BOOLEAN, writeOk \in BOOLEAN :
        LET res == IF dbOk THEN QueryRows(scores) ELSE QueryFailed
            got == get_scores_from_external_db(res, csvFile, writeOk)
            df == CommandFrame(got.df, got.csv)
        IN  /\ csvFile' = got.csv
            /\ IF IsEmpty(df)
               THEN obs' = Observation("leaderboard", res, csvFile, got.df, df,
                                       NoScoresMessage, <<>>)
               ELSE \E sorted \in SortValuesDesc(LeaderboardRows(df)) :
                        obs' = Observation("leaderboard", res, csvFile, got.df, df,
                                           ViewReply, Entries(sorted))
            /\ UNCHANGED <<scores, mapVars, snapVars, roleVars, cmdVars, clockVars,
                           feedVars, procVars, viewVars, connVars>>

\* ?total_leaderboard
total_leaderboard ==
    \E dbOk \in BOOLEAN, writeOk \in BOOLEAN :
        LET res == IF dbOk THEN QueryRows(scores) ELSE QueryFailed
            got == get_scores_from_external_db(res, csvFile, writeOk)
            df == CommandFrame(got.df, got.csv)
        IN  /\ csvFile' = got.csv
            /\ IF IsEmpty(df)
               THEN obs' = Observation("total_leaderboard", res, csvFile, got.df, df,
                                       NoScoresMessage, <<>>)
               ELSE \E sorted \in SortValuesDesc(TotalLeaderboardRows(df)) :
                        obs' = Observation("total_leaderboard", res, csvFile, got.df, df,
                                           ViewReply, sorted)
            /\ UNCHANGED <<scores, mapVars, snapVars, roleVars, cmdVars, clockVars,
                           feedVars, procVars, viewVars, connVars>>

(***************************************************************************)
(* The table user_mapping                                                  *)
(***************************************************************************)
MappingRow(t, d) == [twitch_username |-> t, discord_id |-> d]
HasKey(table, t) == \E i \in DOMAIN table : table[i].twitch_username = t

\* The statement as it would act on a table without the unique key
InsertWithoutUniqueKey(table, t, d) == Append(table, MappingRow(t, d))

\* INSERT INTO user_mapping ... ON DUPLICATE KEY UPDATE discord_id = d, on a
\* table with UNIQUE KEY twitch_username
InsertOnDuplicateKeyUpdate(table, t, d) ==
    IF HasKey(table, t)
    THEN [i \in DOMAIN table |->
            IF table[i].twitch_username = t THEN MappingRow(t, d) ELSE table[i]]
    ELSE Append(table, MappingRow(t, d))

\* get_discord_id_from_twitch: result[0]['discord_id'] of the SELECT, or None
\* when the query fails or finds no row
get_discord_id_from_twitch(table, ok, t) ==
    LET result == SelectSeq(table, LAMBDA r : r.twitch_username = t)
    IN  IF ok /\ Len(result) > 0 THEN result[1].discord_id ELSE None

\* map_twitch_to_discord(t, d): one statement, committed (ok) or failed
MapWrite(t, d, ok) ==
    /\ user_mapping' = IF ok THEN InsertOnDuplicateKeyUpdate(user_mapping, t, d)
                             ELSE user_mapping
    /\ lastWrite' = IF ok THEN [lastWrite EXCEPT ![t] = d] ELSE lastWrite
    /\ mapObs' = [op |-> "map", twitch |-> t, ok |-> ok, result |-> d,
                  replaced |-> ok /\ HasKey(user_mapping, t)
                                  /\ get_discord_id_from_twitch(user_mapping, TRUE, t) # d]

\* A call of map_twitch_to_discord(t, d) by one of its callers
map_twitch_to_discord(t, d) ==
    \E ok \in BOOLEAN :
        /\ MapWrite(t, d, ok)
        /\ UNCHANGED <<scoreVars, snapVars, roleVars, cmdVars, clockVars, feedVars, procVars,
                       viewVars, connVars>>

\* The loop of import_mappings_from_csv: one INSERT per row of the file, a
\* row whose statement raises being counted and skipped
RECURSIVE ImportRows(_, _, _)
ImportRows(table, rows, rowOk) ==
    IF rows = <<>> THEN table
    ELSE ImportRows(IF Head(rowOk)
                        THEN InsertOnDuplicateKeyUpdate(table, Head(rows).twitch_username,
                                                        Head(rows).discord_id)
                        ELSE table,
                    Tail(rows), Tail(rowOk))

\* The Discord ID last written for each username once the rows are in
RECURSIVE LastWrites(_, _, _)
LastWrites(last, rows, rowOk) ==
    IF rows = <<>> THEN last
    ELSE LastWrites(IF Head(rowOk)
                        THEN [last EXCEPT ![Head(rows).twitch_username] = Head(rows).discord_id]
                        ELSE last,
                    Tail(rows), Tail(rowOk))

ImportFiles == SeqsUpTo([twitch_username : Users, discord_id : DiscordIds], MaxImportRows)

\* How a run of import_mappings_from_csv ends: the file cannot be read or
\* lacks a column, get_db_connection gives no connection, the transaction
\* raises and is rolled back, or it is committed.
ImportOutcomes == {"bad_file", "no_connection", "rolled_back", "committed"}

\* import_mappings_from_csv(file) on a file with the given rows
ImportWrite(rows, outcome, rowOk) ==
    LET ok == outcome = "committed"
    IN  /\ user_mapping' = IF ok THEN ImportRows(user_mapping, rows, rowOk) ELSE user_mapping
        /\ lastWrite' = IF ok THEN LastWrites(lastWrite, rows, rowOk) ELSE lastWrite
        /\ mapObs' = [op |-> "import", twitch |-> None, ok |-> ok, result |-> None,
                      replaced |-> FALSE]

\* A call of import_mappings_from_csv
import_mappings_from_csv ==
    \E rows \in ImportFiles, outcome \in ImportOutcomes :
        \E rowOk \in [1..Len(rows) -> BOOLEAN] :
            /\ ImportWrite(rows, outcome, rowOk)
            /\ UNCHANGED <<scoreVars, snapVars, roleVars, cmdVars, clockVars, feedVars, procVars,
                           viewVars, connVars>>

\* A lookup, as get_embed and update_champion_roles make it
LookupDiscordId(t) ==
    \E ok \in BOOLEAN :
        /\ mapObs' = [op |-> "get", twitch |-> t, ok |-> ok,
                      result |-> get_discord_id_from_twitch(user_mapping, ok, t),
                      replaced |-> FALSE]
        /\ UNCHANGED <<user_mapping, lastWrite, scoreVars, snapVars, roleVars, cmdVars, clockVars,
                       feedVars, procVars, viewVars, connVars>>

(***************************************************************************)
(* The table score_snapshots                                               *)
(***************************************************************************)
SnapshotRow(r, type) == [username |-> r.Username, score |-> r.Score, snapshot_type |-> type]

\* How the transaction of take_score_snapshot ends, once there are scores:
\* get_db_connection gives no connection; a statement raises after `at`
\* statements were executed (the DELETE, then one INSERT per row; after the
\* last of them it is the commit that raises) and the transaction is rolled
\* back; or it is committed.
SnapshotOutcomes ==
    {[end |-> "no_connection", at |-> 0], [end |-> "committed", at |-> 0]}
    \cup {[end |-> "rolled_back", at |-> k] : k \in 0..(MaxRows + 1)}

\* The table as the transaction sees it after n of its statements
SnapshotStatements(snaps, rows, type, n) ==
    IF n = 0 THEN snaps
    ELSE LET inserted == IF n - 1 < Len(rows) THEN n - 1 ELSE Len(rows)
         IN  SelectSeq(snaps, LAMBDA s : s.snapshot_type # type)
                \o [i \in 1..inserted |-> SnapshotRow(rows[i], type)]

\* With autocommit every statement is final, and a rollback undoes nothing
rollback_autocommit(committed, work) == work

\* connection.rollback() with autocommit=False: the table is again what was
\* committed last, whatever the statements of the transaction did
rollback(committed, work) == committed

\* take_score_snapshot(type): the value returned, the CSV file and the table
\* afterwards, and the frame it worked on.  Both layouts of the frame have a
\* username and a score column.
take_score_snapshot(type, res, csv, writeOk, outcome, snaps) ==
    LET got == get_scores_from_external_db(res, csv, writeOk)
        rows == got.df.rows
        done == ~IsEmpty(got.df) /\ outcome.end = "committed"
    IN  [ok |-> done,
         csv |-> got.csv,
         df |-> got.df,
         snaps |-> IF IsEmpty(got.df) \/ outcome.end = "no_connection" THEN snaps
                   ELSE IF outcome.end = "committed"
                   THEN SnapshotStatements(snaps, rows, type, Len(rows) + 1)
                   ELSE rollback(snaps, SnapshotStatements(snaps, rows, type, outcome.at))]

\* The rows of one snapshot type, as `WHERE snapshot_type = ...` selects them
SnapshotsOf(snaps, type) == SelectSeq(snaps, LAMBDA s : s.snapshot_type = type)

\* What get_session_scores keeps of a row: the name, the score and the
\* session score (the other columns are carried along unchanged)
SessionRow(r, session) == [Username |-> r.Username, Score |-> r.Score, SessionScore |-> session]

\* lambda x: max(0, x)
NotNegative(x) == IF x < 0 THEN 0 ELSE x

\* pd.merge(current, snapshot, left_on=username, right_on='username',
\* how='left'), then fillna(0) and the subtraction: a row of the current
\* scores is paired with every snapshot row of its user, or with a score of
\* zero when the user has none.
RECURSIVE LeftMerge(_, _)
LeftMerge(rows, snap) ==
    IF rows = <<>> THEN <<>>
    ELSE LET r == Head(rows)
             matches == SelectSeq(snap, LAMBDA s : s.username = r.Username)
             paired == IF matches = <<>>
                       THEN <<SessionRow(r, NotNegative(r.Score - 0))>>
                       ELSE [i \in DOMAIN matches |->
                               SessionRow(r, NotNegative(r.Score - matches[i].score))]
         IN  paired \o LeftMerge(Tail(rows), snap)

\* get_session_scores(): the frame returned and the CSV file afterwards.  res
\* is the outcome of the score query, snapRes that of the snapshot query.
get_session_scores(res, csv, writeOk, snapRes) ==
    LET got == get_scores_from_external_db(res, csv, writeOk)
        current == got.df.rows
    IN  IF IsEmpty(got.df)
        THEN [df |-> EmptyDataFrame, csv |-> got.csv, current |-> got.df]
        ELSE IF NoResults(snapRes)
        THEN [df |-> DataFrame(got.df.cols \cup {"SessionScore"},
                               [i \in DOMAIN current |-> SessionRow(current[i], current[i].Score)]),
              csv |-> got.csv, current |-> got.df]
        ELSE [df |-> DataFrame(got.df.cols \cup {"username", "score", "snapshot_date",
                                                 "SessionScore", "SnapshotDate"},
                               LeftMerge(current, snapRes.rows)),
              csv |-> got.csv, current |-> got.df]

\* sort_values(by='SessionScore', ascending=False), unstable as above
SortBySessionScoreDesc(rows) ==
    LET n == Len(rows)
        perms == {p \in [1..n -> 1..n] : \A i, j \in 1..n : i # j => p[i] # p[j]}
    IN  {[i \in 1..n |-> rows[p[i]]] : p \in
            {q \in perms : \A i, j \in 1..n :
                i < j => rows[q[i]].SessionScore >= rows[q[j]].SessionScore}}

NoSessionScoresMessage == "No session scores available!"

\* ?session_leaderboard
session_leaderboard ==
    \E dbOk \in BOOLEAN, writeOk \in BOOLEAN, snapOk \in BOOLEAN :
        LET res == IF dbOk THEN QueryRows(scores) ELSE QueryFailed
            snapRes == IF snapOk THEN QueryRows(SnapshotsOf(score_snapshots, "weekly"))
                                 ELSE QueryFailed
            s == get_session_scores(res, csvFile, writeOk, snapRes)
        IN  /\ csvFile' = s.csv
            /\ IF IsEmpty(s.df)
               THEN obs' = Observation("session_leaderboard", res, csvFile, s.current, s.df,
                                       NoSessionScoresMessage, <<>>)
               ELSE \E sorted \in SortBySessionScoreDesc(s.df.rows) :
                        obs' = Observation("session_leaderboard", res, csvFile, s.current,
                                           s.df, ViewReply, sorted)
            /\ UNCHANGED <<scores, mapVars, snapVars, roleVars, cmdVars, clockVars,
                           feedVars, procVars, viewVars, connVars>>

(***************************************************************************)
(* update_champion_roles                                                   *)
(***************************************************************************)
WEEKLY_CHAMPION_ROLE == "Last Week's Champion"
ALL_TIME_CHAMPION_ROLE == "All Time Champion"
ADMIN_ROLE == "Roll With Advantage!"
ChampionRoles == {WEEKLY_CHAMPION_ROLE, ALL_TIME_CHAMPION_ROLE}

\* The handlers that await in the middle of their work: the iteration of
\* schedule_weekly_update and the command ?update_roles
Handlers == {"task", "cmd"}

\* scores_df[scores_df['RecentDate'] == scores_df['RecentDate'].max()]
MostRecentRows(rows) ==
    SelectSeq(rows, LAMBDA r : r.RecentDate = MaxDate({x.RecentDate : x \in Range(rows)}))

\* The places of update_champion_roles that may call the Discord API, in
\* the order of the code: for each member of guild.members the removal of
\* the weekly role and then of the all-time role, then the two grants.
LoopPoints == 1..(2 * Len(MemberSeq))
AddWeeklyPoint == 2 * Len(MemberSeq) + 1
AddAllTimePoint == 2 * Len(MemberSeq) + 2
PointMember(k) == MemberSeq[(k + 1) \div 2]
PointRole(k) == IF k % 2 = 1 THEN WEEKLY_CHAMPION_ROLE ELSE ALL_TIME_CHAMPION_ROLE

\* The call made at place k by a run with the locals r
CallAt(k, r) ==
    IF k \in LoopPoints
    THEN [op |-> "remove_roles", member |-> PointMember(k), role |-> PointRole(k)]
    ELSE IF k = AddWeeklyPoint
         THEN [op |-> "add_roles", member |-> r.weekly_id, role |-> WEEKLY_CHAMPION_ROLE]
         ELSE [op |-> "add_roles", member |-> r.all_time_id, role |-> ALL_TIME_CHAMPION_ROLE]

\* A run that diffs: a holder who stays champion is left alone
DueByDiff(k, roles, r) ==
    LET champion == IF PointRole(k) = WEEKLY_CHAMPION_ROLE THEN r.weekly_id ELSE r.all_time_id
    IN  IF k \in LoopPoints
        THEN PointRole(k) \in roles[PointMember(k)] /\ PointMember(k) # champion
        ELSE CallAt(k, r).member \in Members /\ CallAt(k, r).role \notin roles[CallAt(k, r).member]

\* A run that takes a role away only when it has a member to give it to
DueWithSuccessor(k, roles, r) ==
    LET champion == IF PointRole(k) = WEEKLY_CHAMPION_ROLE THEN r.weekly_id ELSE r.all_time_id
    IN  IF k \in LoopPoints
        THEN PointRole(k) \in roles[PointMember(k)] /\ champion \in Members
        ELSE CallAt(k, r).member \in Members

\* Whether the code makes the call of place k: `if role in member.roles` in
\* the loop; for a grant `if discord_id` and `if guild.get_member(...)`.
Due(k, roles, r) ==
    IF k \in LoopPoints
    THEN PointRole(k) \in roles[PointMember(k)]
    ELSE CallAt(k, r).member \in Members

\* The first place from j on whose call is made, 0 when there is none
NextCall(j, roles, r) ==
    LET due == {k \in j..AddAllTimePoint : Due(k, roles, r)}
    IN  IF due = {} THEN 0 ELSE CHOOSE k \in due : \A x \in due : k <= x

\* member.remove_roles(role), member.add_roles(role)
ApplyCall(c, roles) ==
    [roles EXCEPT ![c.member] = IF c.op = "remove_roles" THEN @ \ {c.role} ELSE @ \cup {c.role}]

\* A handler suspended in a section that has no await
SuspendedAnywhere(k) == "scan"

\* The await at which the run is suspended after the call of place k
AwaitAt(k) == IF k \in LoopPoints THEN "remove_roles" ELSE "add_roles"

AwaitPoints == {"remove_roles", "add_roles"}

\* The locals of a run, and the record kept of it: the roles and the mapping
\* it found, the rows it read, the calls it made, and whether another
\* handler changed a role while it ran (overlapped) or since it completed
\* (stale).
NoRun ==
    [result |-> "none", weekly_twitch |-> None, all_time_twitch |-> None,
     weekly_id |-> None, all_time_id |-> None, next |-> 0,
     start |-> [m \in Members |-> {}], mapping |-> <<>>, rows |-> <<>>,
     calls |-> <<>>, overlapped |-> FALSE, stale |-> FALSE]

\* A return that comes after the champion roles were taken from everyone
ReturnedAfterRemoval(roles, csv, r, result) ==
    [roles |-> [m \in Members |-> roles[m] \ ChampionRoles], csv |-> csv,
     run |-> [r EXCEPT !.result = result, !.next = 0], at |-> "idle"]

\* update_champion_roles returns or raises
Returned(roles, csv, r, result) ==
    [roles |-> roles, csv |-> csv, run |-> [r EXCEPT !.result = result, !.next = 0],
     at |-> "idle"]

\* The section of a run from place j to its next await, or to its end
Continue(j, roles, csv, r) ==
    LET k == NextCall(j, roles, r)
    IN  IF k = 0
        THEN Returned(roles, csv, r, "completed")
        ELSE [roles |-> ApplyCall(CallAt(k, r), roles),
              csv |-> csv,
              run |-> [r EXCEPT !.next = k + 1, !.calls = Append(@, CallAt(k, r))],
              at |-> AwaitAt(k)]

\* update_champion_roles, from its call to its first await or to its return:
\* the ways it can go, given what the queries and the sorts may do.
update_champion_roles(roles, mapping, csv, g, table) ==
    LET r0 == [NoRun EXCEPT !.result = "running", !.start = roles, !.mapping = mapping]
    IN  IF ~g.found
        THEN {Returned(roles, csv, r0, "no_guild")}
        ELSE UNION {
               LET res == IF dbOk THEN QueryRows(table) ELSE QueryFailed
                   got == get_scores_from_external_db(res, csv, writeOk)
                   r1 == [r0 EXCEPT !.rows = got.df.rows]
               IN  IF IsEmpty(got.df)
                   THEN {Returned(roles, got.csv, r1, "no_scores")}
                   ELSE IF ~(ChampionRoles \subseteq g.roles)
                   THEN {Returned(roles, got.csv, r1, "no_roles")}
                   ELSE IF "RecentDate" \notin got.df.cols
                   THEN {Returned(roles, got.csv, r1, "raised")}
                   ELSE {Continue(1, roles, got.csv,
                                  [r1 EXCEPT
                                     !.weekly_twitch = w[1].Username,
                                     !.weekly_id =
                                        get_discord_id_from_twitch(mapping, wOk, w[1].Username),
                                     !.all_time_twitch = a[1].Username,
                                     !.all_time_id =
                                        get_discord_id_from_twitch(mapping, aOk, a[1].Username)]) :
                            w \in SortValuesDesc(MostRecentRows(got.df.rows)),
                            a \in SortValuesDesc(got.df.rows),
                            wOk \in BOOLEAN, aOk \in BOOLEAN}
               : dbOk \in BOOLEAN, writeOk \in BOOLEAN}

\* The record of a run of another handler, when this step changed a role
Disturbed(r, changed) ==
    IF changed /\ r.result = "running" THEN [r EXCEPT !.overlapped = TRUE]
    ELSE IF changed /\ r.result = "completed" THEN [r EXCEPT !.stale = TRUE]
    ELSE r

\* Handler h goes on as o says: the roles, the file, its locals, its await
Proceed(h, o) ==
    /\ memberRoles' = o.roles
    /\ csvFile' = o.csv
    /\ pc' = [pc EXCEPT ![h] = IF o.run.result = "raised" /\ h = "task" THEN "stopped" ELSE o.at]
    /\ run' = [x \in Handlers |->
                 IF x = h THEN o.run ELSE Disturbed(run[x], o.roles # memberRoles)]

(***************************************************************************)
(* Commands: the checks before the body, the bodies, on_command_error      *)
(***************************************************************************)
Commands ==
    {"leaderboard", "total_leaderboard", "session_leaderboard", "link_twitch", "whoami",
     "member_count", "export_mappings", "import_mappings", "take_snapshot", "help",
     "update_roles", "create_role_message", "check_youtube", "test_feed", "link_twitch_ui",
     "twitch_status", "start_twitch_monitoring"}

\* The commands decorated with @commands.has_role("Roll With Advantage!")
HasRoleCheck ==
    {"link_twitch", "export_mappings", "import_mappings", "take_snapshot", "update_roles",
     "create_role_message", "check_youtube", "test_feed", "link_twitch_ui",
     "start_twitch_monitoring"}

\* The commands that HelpView.admin_commands lists under "Admin Commands"
admin_commands ==
    {"link_twitch", "update_roles", "create_role_message", "export_mappings",
     "import_mappings", "link_twitch_ui", "take_snapshot", "check_youtube", "twitch_status",
     "start_twitch_monitoring"}

\* What is typed after the prefix: a command with a body modelled below, or
\* a name that no command has
Typed == admin_commands \cup {"test_feed", "nosuch"}

\* What comes with the command.  ?link_twitch: kind "ok" with a member and a
\* username, "missing" without them, "bad" with a member that is not found.
\* ?import_mappings: "ok" with a CSV attachment, "missing" without an
\* attachment, "bad" with another file.
NoArgs == [kind |-> "ok", member |-> None, twitch |-> None]
Args(c) ==
    IF c = "link_twitch"
    THEN [kind : {"ok"}, member : Members, twitch : Users]
         \cup {[kind |-> k, member |-> None, twitch |-> None] : k \in {"missing", "bad"}}
    ELSE IF c = "import_mappings"
    THEN {[kind |-> k, member |-> None, twitch |-> None] : k \in {"ok", "missing", "bad"}}
    ELSE {NoArgs}

\* What stops a command before its body: the name is looked up, then the
\* checks run, then the arguments are converted.
CommandError(m, c, a, roles) ==
    IF c \notin Commands THEN "CommandNotFound"
    ELSE IF c \in HasRoleCheck /\ ADMIN_ROLE \notin roles[m] THEN "MissingRole"
    ELSE IF c = "link_twitch" /\ a.kind = "missing" THEN "MissingRequiredArgument"
    ELSE IF c = "link_twitch" /\ a.kind = "bad" THEN "MemberNotFound"
    ELSE "none"

\* A handler that reports only the three kinds it names
on_command_error_named_only(error) ==
    IF error = "MissingRole" THEN <<"Permission Denied">>
    ELSE IF error = "CommandNotFound" THEN <<"Command Not Found">>
    ELSE IF error = "MissingRequiredArgument" THEN <<"Missing Argument">>
    ELSE <<>>

\* on_command_error: the titles of the embeds it sends to ctx
on_command_error(error) ==
    IF error = "MissingRole" THEN <<"Permission Denied">>
    ELSE IF error = "CommandNotFound" THEN <<"Command Not Found">>
    ELSE IF error = "MissingRequiredArgument" THEN <<"Missing Argument">>
    ELSE <<"Error">>

NoInvocation == [cmd |-> None, invoker |-> None, error |-> "none", ran |-> FALSE]
Invocation(m, c, error) == [cmd |-> c, invoker |-> m, error |-> error, ran |-> error = "none"]

\* What a body without a modelled store can send, and what it calls on
Reply(messages, touched) == [sent |-> messages, effects |-> touched]
Replies(c) ==
    IF c = "create_role_message"
    THEN {Reply(<<"role menu", "Role Menu Created">>, {})}
    ELSE IF c = "link_twitch_ui"
    THEN {Reply(<<"link view">>, {})}
    ELSE IF c = "export_mappings"
    THEN {Reply(<<"Successfully exported", "file">>, {"db", "file"}),
          Reply(<<"Failed to export">>, {"db"})}
    ELSE IF c = "check_youtube"
    THEN {Reply(<<"Checking">> \o <<x>>, {"youtube", "file"}) :
             x \in {"Could not fetch", "video", "Error checking YouTube"}}
    ELSE IF c = "test_feed"
    THEN {Reply(<<"Testing">> \o x, {"youtube"}) :
             x \in {<<"Feed parsed", "details">>, <<"no entries">>, <<"Error testing feed">>}}
    ELSE IF c = "twitch_status"
    THEN {Reply(<<"Checking">> \o <<x>>, {"twitch"}) :
             x \in {"Could not fetch", "LIVE", "offline"}}
    ELSE IF c = "start_twitch_monitoring"
    THEN {Reply(<<"monitoring started">>, {"task"}), Reply(<<"already running">>, {})}
    ELSE {}

\* The body of ?link_twitch
link_twitch(a) ==
    \E ok \in BOOLEAN :
        /\ MapWrite(a.twitch, a.member, ok)
        /\ sent' = <<IF ok THEN "User Linked" ELSE "Error">>
        /\ effects' = {"db"}
        /\ UNCHANGED <<scoreVars, snapVars, roleVars, clockVars, feedVars, procVars,
                       viewVars, connVars>>

\* The body of ?import_mappings
import_mappings(a) ==
    \/ /\ a.kind # "ok"
       /\ sent' = <<IF a.kind = "missing" THEN "Please attach" ELSE "must be a CSV file">>
       /\ effects' = {}
       /\ UNCHANGED <<scoreVars, mapVars, snapVars, roleVars, clockVars, feedVars, procVars,
                      viewVars, connVars>>
    \/ /\ a.kind = "ok"
       /\ sent' = <<"Error processing the file">>
       /\ effects' = {"file"}
       /\ UNCHANGED <<scoreVars, mapVars, snapVars, roleVars, clockVars, feedVars, procVars,
                      viewVars, connVars>>
    \/ /\ a.kind = "ok"
       /\ \E rows \in ImportFiles, outcome \in ImportOutcomes :
            \E rowOk \in [1..Len(rows) -> BOOLEAN] :
                /\ ImportWrite(rows, outcome, rowOk)
                /\ sent' = <<IF outcome = "committed" THEN "Import complete"
                                                      ELSE "Import failed">>
       /\ effects' = {"file", "db"}
       /\ UNCHANGED <<scoreVars, snapVars, roleVars, clockVars, feedVars, procVars,
                      viewVars, connVars>>

\* The body of ?take_snapshot
take_snapshot ==
    \E dbOk \in BOOLEAN, writeOk \in BOOLEAN, outcome \in SnapshotOutcomes :
        LET res == IF dbOk THEN QueryRows(scores) ELSE QueryFailed
            t == take_score_snapshot("weekly", res, csvFile, writeOk, outcome, score_snapshots)
        IN  /\ csvFile' = t.csv
            /\ score_snapshots' = t.snaps
            /\ obs' = Observation("take_snapshot", res, csvFile, t.df, t.df,
                                   IF t.ok THEN "Snapshot Created" ELSE "Error", <<>>)
            /\ sent' = <<IF t.ok THEN "Snapshot Created" ELSE "Error">>
            /\ effects' = {"db"}
            /\ UNCHANGED <<scores, mapVars, roleVars, clockVars, feedVars, procVars,
                           viewVars, connVars>>

\* ?update_roles by member m, up to its first await: update_champion_roles,
\* and when that returns at once, the reply; when it raises, the report
update_roles(m) ==
    \E o \in update_champion_roles(memberRoles, user_mapping, csvFile, guild, scores) :
        LET raised == o.run.result = "raised"
        IN  /\ Proceed("cmd", o)
            /\ inv' = Invocation(m, "update_roles",
                                 IF raised THEN "CommandInvokeError" ELSE "none")
            /\ sent' = IF raised THEN on_command_error("CommandInvokeError")
                       ELSE IF o.at = "idle" THEN <<"Roles Updated">>
                       ELSE <<>>
            /\ effects' = {"db"} \cup (IF o.roles # memberRoles THEN {"roles"} ELSE {})
            /\ UNCHANGED <<scores, obs, guild, mapVars, snapVars, clockVars, feedVars, procVars,
                           viewVars, connVars>>

\* A message that begins with the prefix arrives from member m
Dispatch(m, c, a) ==
    /\ budget > 0
    /\ pc["cmd"] = "idle"
    /\ budget' = budget - 1
    /\ LET error == CommandError(m, c, a, memberRoles)
       IN  IF error # "none"
           THEN /\ inv' = Invocation(m, c, error)
                /\ sent' = on_command_error(error)
                /\ effects' = {}
                /\ UNCHANGED <<scoreVars, mapVars, snapVars, roleVars, clockVars,
                               feedVars, procVars, viewVars, connVars>>
           ELSE IF c = "update_roles" THEN update_roles(m)
           ELSE /\ inv' = Invocation(m, c, "none")
                /\ IF c = "link_twitch" THEN link_twitch(a)
                   ELSE IF c = "import_mappings" THEN import_mappings(a)
                   ELSE IF c = "take_snapshot" THEN take_snapshot
                   ELSE /\ \E r \in Replies(c) : sent' = r.sent /\ effects' = r.effects
                        /\ UNCHANGED <<scoreVars, mapVars, snapVars, roleVars, clockVars,
                                       feedVars, procVars, viewVars, connVars>>

\* ?update_roles resumes after an await, and replies when the update is done
ResumeCommand ==
    /\ pc["cmd"] \in AwaitPoints
    /\ LET o == Continue(run["cmd"].next, memberRoles, csvFile, run["cmd"])
       IN  /\ Proceed("cmd", o)
           /\ sent' = IF o.at = "idle" THEN Append(sent, "Roles Updated") ELSE sent
           /\ effects' = effects \cup (IF o.roles # memberRoles THEN {"roles"} ELSE {})
    /\ UNCHANGED <<scores, obs, guild, inv, budget, mapVars, snapVars, clockVars,
                   feedVars, procVars, viewVars, connVars>>

(***************************************************************************)
(* schedule_weekly_update and the clock                                    *)
(***************************************************************************)
\* datetime.now() to the minute; weekday() is 0 on Monday and 6 on Sunday
Time(d, h, m) == [weekday |-> d, hour |-> h, minute |-> m]
Times == [weekday : 0..6, hour : 0..23, minute : 0..59]
WeekStart == Time(0, 0, 0)

NextMinute(t) ==
    IF t.minute < 59 THEN [t EXCEPT !.minute = @ + 1]
    ELSE IF t.hour < 23 THEN [t EXCEPT !.minute = 0, !.hour = @ + 1]
    ELSE Time((t.weekday + 1) % 7, 0, 0)

\* The test without the minute
IsUpdateHour(t) == t.weekday = 6 /\ t.hour = 1

\* now.weekday() == 6 and now.hour == 1 and now.minute == 0
IsUpdateTime(t) == t.weekday = 6 /\ t.hour = 1 /\ t.minute = 0

\* The record of the weekly updates: how many this week, whether the week is
\* seen from its start, the counts of the whole weeks that have passed, the
\* times of the iterations that made an update, and what take_score_snapshot
\* returned to the last of them.
NoWeekly == [count |-> 0, whole |-> FALSE, past |-> {}, times |-> {}, snapshot |-> FALSE]

\* One iteration of schedule_weekly_update, up to its first await
schedule_weekly_update ==
    /\ pc["task"] = "idle"
    /\ ~ticked
    /\ ticked' = TRUE
    /\ IF IsUpdateTime(now)
       THEN \E dbOk \in BOOLEAN, writeOk \in BOOLEAN, outcome \in SnapshotOutcomes :
               LET res == IF dbOk THEN QueryRows(scores) ELSE QueryFailed
                   t == take_score_snapshot("weekly", res, csvFile, writeOk, outcome,
                                            score_snapshots)
               IN  \E o \in update_champion_roles(memberRoles, user_mapping, t.csv, guild,
                                                  scores) :
                       /\ Proceed("task", o)
                       /\ score_snapshots' = t.snaps
                       /\ announced' = IF o.at = "idle" /\ o.run.result # "raised"
                                          /\ guild.channel
                                       THEN announced + 1 ELSE announced
                       /\ weekly' = [weekly EXCEPT !.count = @ + 1,
                                                   !.times = @ \cup {now},
                                                   !.snapshot = t.ok]
       ELSE UNCHANGED <<csvFile, score_snapshots, memberRoles, pc, run, announced, weekly>>
    /\ UNCHANGED <<scores, obs, guild, now, mapVars, cmdVars, feedVars, procVars,
                   viewVars, connVars>>

\* The iteration resumes after an await, and announces when the update is done
ResumeTask ==
    /\ pc["task"] \in AwaitPoints
    /\ LET o == Continue(run["task"].next, memberRoles, csvFile, run["task"])
       IN  /\ Proceed("task", o)
           /\ announced' = IF o.at = "idle" /\ guild.channel THEN announced + 1 ELSE announced
    /\ UNCHANGED <<scores, obs, guild, now, ticked, weekly, mapVars, snapVars, cmdVars,
                   feedVars, procVars, viewVars, connVars>>

\* A minute passes, after the iteration of the minute has begun
ClockAdvance ==
    /\ ticked
    /\ ticked' = FALSE
    /\ now' = NextMinute(now)
    /\ IF NextMinute(now) = WeekStart
       THEN /\ weekly' = [count |-> 0, whole |-> TRUE, times |-> weekly.times,
                          snapshot |-> FALSE,
                          past |-> IF weekly.whole THEN weekly.past \cup {weekly.count}
                                                   ELSE weekly.past]
            /\ announced' = 0
       ELSE UNCHANGED <<weekly, announced>>
    /\ UNCHANGED <<scoreVars, mapVars, snapVars, roleVars, cmdVars, feedVars, procVars,
                   viewVars, connVars>>

(***************************************************************************)
(* check_twitch_streams and the saved live status                          *)
(***************************************************************************)
MaxPolls == 3       \* polls of check_twitch_streams in a behaviour

TWITCH_CHANNELS == {"rollwithadvantage", "guest"}

\* The file as load_live_status finds it when it does not exist: {}
NoLiveStatus == [c \in TWITCH_CHANNELS |-> "absent"]

\* get_stream_status(channel): None, {'is_live': False} or {'is_live': True, ...}
StreamStatuses == {"failed", "offline", "live"}

\* The body of the loop for one channel.  prev is the channel's entry of
\* previous_status, fetch what get_stream_status returned, delivered whether
\* send_stream_notification found its channel and its send did not raise.
\* status is the entry of current_status ("absent" after `continue`); event
\* is what the poll observed, "notified" when it sent the notification.
PollChannel(prev, fetch, delivered) ==
    IF fetch = "failed" THEN [status |-> "absent", event |-> "failed"]
    ELSE IF fetch = "offline" THEN [status |-> "offline", event |-> "offline"]
    ELSE [status |-> "live",
          event |-> IF prev # "live" /\ delivered THEN "notified" ELSE "live"]

\* One iteration of check_twitch_streams.  No other handler reads or writes
\* the status file, so the awaits of the notifications are not places where
\* anything it works with can change.
check_twitch_streams ==
    /\ \A c \in TWITCH_CHANNELS : Len(twitch_log[c]) < MaxPolls
    /\ \E loadOk \in BOOLEAN, saveOk \in BOOLEAN,
          fetch \in [TWITCH_CHANNELS -> StreamStatuses],
          delivered \in [TWITCH_CHANNELS -> BOOLEAN] :
          LET previous_status == IF loadOk THEN live_status ELSE NoLiveStatus
              polled == [c \in TWITCH_CHANNELS |->
                           PollChannel(previous_status[c], fetch[c], delivered[c])]
          IN  /\ live_status' = IF saveOk THEN [c \in TWITCH_CHANNELS |-> polled[c].status]
                                          ELSE live_status
              /\ twitch_log' = [c \in TWITCH_CHANNELS |->
                                  Append(twitch_log[c], polled[c].event)]
    /\ UNCHANGED <<last_video, youtube_log>>
    /\ UNCHANGED <<scoreVars, mapVars, snapVars, roleVars, cmdVars, clockVars, procVars,
                   viewVars, connVars>>

(***************************************************************************)
(* check_youtube_videos and the last-video file                            *)
(***************************************************************************)
MaxNotified == 3    \* notifications of check_youtube_videos in a behaviour

VideoIds == {"v1", "v2", "v3"}

\* How save_last_video_id ends: the ID is written; open() raises and the file
\* stays as it was; open() has truncated the file and the write raises.
SaveOutcomes == {"written", "not_opened", "truncated"}

\* save_last_video_id(id): the file afterwards
save_last_video_id(file, id, outcome) ==
    IF outcome = "written" THEN id
    ELSE IF outcome = "truncated" THEN ""
    ELSE file

\* get_last_video_id(): the content of the file, None when the file does not
\* exist or the read raises.  The IDs of the feed have no blanks to strip.
get_last_video_id(file, readOk) == IF readOk THEN file ELSE None

\* One iteration of check_youtube_videos.  latest is the ID of the first
\* entry of the feed, None when get_latest_youtube_video returns None;
\* delivered is whether bot.get_channel found the channel and send returned.
check_youtube_videos ==
    /\ Len(youtube_log) < MaxNotified
    /\ \E latest \in VideoIds \cup {None}, readOk \in BOOLEAN, delivered \in BOOLEAN,
          outcome \in SaveOutcomes :
          LET last_video_id == get_last_video_id(last_video, readOk)
          IN  IF latest # None /\ latest # last_video_id /\ delivered
              THEN /\ youtube_log' = Append(youtube_log, latest)
                   /\ last_video' = save_last_video_id(last_video, latest, outcome)
              ELSE UNCHANGED <<last_video, youtube_log>>
    /\ UNCHANGED <<live_status, twitch_log>>
    /\ UNCHANGED <<scoreVars, mapVars, snapVars, roleVars, cmdVars, clockVars, procVars,
                   viewVars, connVars>>

(***************************************************************************)
(* The start of a process: the lock on trivia_bot.lock                     *)
(***************************************************************************)
Processes == {"p1", "p2", "p3"}

\* A process that is not running: before its start and after its end
NoInstance == [at |-> "none", tables |-> FALSE, connected |-> FALSE]
Ended == {"none", "no_lock_file", "exited", "ended"}

\* A lock request that is always granted
flock_unconditional(holder, p) == [holder |-> p, is_locked |-> TRUE]

\* fcntl.flock(fd, LOCK_EX | LOCK_NB) by process p: the holder afterwards,
\* and is_locked (IOError when another process holds the lock)
flock_exclusive_nonblocking(holder, p) ==
    IF holder = None \/ holder = p
    THEN [holder |-> p, is_locked |-> TRUE]
    ELSE [holder |-> holder, is_locked |-> FALSE]

\* A process runs the script: open("trivia_bot.lock", "w"), which can raise
StartProcess(p) ==
    /\ instance[p].at \in Ended
    /\ \E opened \in BOOLEAN :
          instance' = [instance EXCEPT
                          ![p] = [NoInstance EXCEPT
                                     !.at = IF opened THEN "opened" ELSE "no_lock_file"]]
    /\ UNCHANGED <<flock, scoreVars, mapVars, snapVars, roleVars, cmdVars, clockVars, feedVars,
                   viewVars, connVars>>

\* import msvcrt raises ImportError; fcntl.flock(LOCK_EX | LOCK_NB)
TryLock(p) ==
    /\ instance[p].at = "opened"
    /\ LET got == flock_exclusive_nonblocking(flock, p)
       IN  /\ flock' = got.holder
           /\ instance' = [instance EXCEPT
                              ![p].at = IF got.is_locked THEN "locked" ELSE "refused"]
    /\ UNCHANGED <<scoreVars, mapVars, snapVars, roleVars, cmdVars, clockVars, feedVars,
                   viewVars, connVars>>

\* if not is_locked: sys.exit(1)
ExitRefused(p) ==
    /\ instance[p].at = "refused"
    /\ instance' = [instance EXCEPT ![p].at = "exited"]
    /\ UNCHANGED <<flock, scoreVars, mapVars, snapVars, roleVars, cmdVars, clockVars, feedVars,
                   viewVars, connVars>>

\* create_tables_if_not_exist()
CreateTables(p) ==
    /\ instance[p].at = "locked"
    /\ instance' = [instance EXCEPT ![p].at = "tables", ![p].tables = TRUE]
    /\ UNCHANGED <<flock, scoreVars, mapVars, snapVars, roleVars, cmdVars, clockVars, feedVars,
                   viewVars, connVars>>

\* bot.run(TOKEN)
RunBot(p) ==
    /\ instance[p].at = "tables"
    /\ instance' = [instance EXCEPT ![p].at = "running", ![p].connected = TRUE]
    /\ UNCHANGED <<flock, scoreVars, mapVars, snapVars, roleVars, cmdVars, clockVars, feedVars,
                   viewVars, connVars>>

\* The process ends, whatever it was doing: bot.run returns or raises, or
\* the process is killed.  Its descriptors are closed, and with them its lock.
EndProcess(p) ==
    /\ instance[p].at \in {"opened", "locked", "tables", "running"}
    /\ instance' = [instance EXCEPT ![p].at = "ended"]
    /\ flock' = IF flock = p THEN None ELSE flock
    /\ UNCHANGED <<scoreVars, mapVars, snapVars, roleVars, cmdVars, clockVars, feedVars,
                   viewVars, connVars>>

(***************************************************************************)
(* LeaderboardView: the pages of a leaderboard message                     *)
(***************************************************************************)
MaxViewRows == 25   \* rows of the frame handed to a view

\* page_size=10, the default that every caller leaves as it is
page_size == 10

\* max(1, (len(self.scores_df) + self.page_size - 1) // self.page_size)
max_pages(rows) ==
    LET pages == (rows + page_size - 1) \div page_size
    IN  IF pages > 1 THEN pages ELSE 1

\* The label of the page indicator, f"Page {page + 1}/{max_pages}"
PageLabel(page, pages) == <<page + 1, pages>>

\* No leaderboard message has been sent
NoView ==
    [sent |-> FALSE, rows |-> 0, is_total |-> FALSE, page |-> 0, max_pages |-> 1,
     prev_disabled |-> FALSE, next_disabled |-> FALSE, label |-> PageLabel(0, 1),
     click |-> "none", before |-> 0, response |-> "none"]

\* LeaderboardView(scores_df, is_total) as the commands construct it: page 0,
\* the buttons as their decorators declare them (Previous and Next enabled,
\* the indicator labelled "Page 1/1")
LeaderboardView(rows, is_total) ==
    [NoView EXCEPT !.sent = TRUE, !.rows = rows, !.is_total = is_total,
                   !.max_pages = max_pages(rows)]

\* A Next that does not look at the number of pages
CanGoNextAlways(v) == TRUE

\* `if self.page < self.max_pages - 1`
CanGoNext(v) == v.page < v.max_pages - 1

\* `if self.page > 0`
CanGoPrevious(v) == v.page > 0

\* What the handlers of Previous and Next do once self.page is set
Moved(v, button, page) ==
    [v EXCEPT !.page = page,
              !.prev_disabled = (page <= 0),
              !.next_disabled = (page >= v.max_pages - 1),
              !.label = PageLabel(page, v.max_pages),
              !.click = button, !.before = v.page, !.response = "edit_message"]

\* interaction.response.defer(): the message stays as it is
Deferred(v, button) ==
    [v EXCEPT !.click = button, !.before = v.page, !.response = "defer"]

\* A click reaches its handler whatever the button's disabled flag says
\* now: the message is shown to every member of the channel, and a click
\* may have been made on a button that another click has disabled since.
prev_button ==
    /\ view.sent
    /\ view' = IF CanGoPrevious(view) THEN Moved(view, "prev_button", view.page - 1)
               ELSE Deferred(view, "prev_button")
    /\ UNCHANGED <<scoreVars, mapVars, snapVars, roleVars, cmdVars, clockVars, feedVars,
                   procVars, connVars>>

next_button ==
    /\ view.sent
    /\ view' = IF CanGoNext(view) THEN Moved(view, "next_button", view.page + 1)
               ELSE Deferred(view, "next_button")
    /\ UNCHANGED <<scoreVars, mapVars, snapVars, roleVars, cmdVars, clockVars, feedVars,
                   procVars, connVars>>

page_indicator ==
    /\ view.sent
    /\ view' = Deferred(view, "page_indicator")
    /\ UNCHANGED <<scoreVars, mapVars, snapVars, roleVars, cmdVars, clockVars, feedVars,
                   procVars, connVars>>

toggle_button ==
    /\ view.sent
    /\ view' = [view EXCEPT !.is_total = ~@,
                            !.page = 0,
                            !.prev_disabled = TRUE,
                            !.next_disabled = (view.max_pages <= 1),
                            !.label = PageLabel(0, view.max_pages),
                            !.click = "toggle_button", !.before = view.page,
                            !.response = "edit_message"]
    /\ UNCHANGED <<scoreVars, mapVars, snapVars, roleVars, cmdVars, clockVars, feedVars,
                   procVars, connVars>>

(***************************************************************************)
(* get_db_connection and execute_db_query                                  *)
(***************************************************************************)
MaxConnects == 3    \* connections that pymysql.connect opens

\* db_connection = None; the handles are numbered from 1 in the order in
\* which pymysql.connect returns them
NoConnection == 0

\* db_connection.ping(reconnect=True): the server answers; or it does not
\* and the handle opens its socket anew; or that fails too and ping raises.
\* On a socket that is closed the server cannot answer.
PingOutcomes(socket) ==
    IF socket = "open" THEN {"ok", "reconnected", "raised"} ELSE {"reconnected", "raised"}

\* The socket of the cached handle after a call of get_db_connection
SocketAfter(c, socket) ==
    IF c.connect = "ok" \/ c.ping \in {"ok", "reconnected"} THEN "open"
    ELSE IF c.cached = NoConnection THEN socket
    ELSE "closed"

\* What a call of get_db_connection did: the handle cached before, how the
\* ping and pymysql.connect went ("none" when not called), what came back
ConnectionResult(cached, ping, connect, returned, raised) ==
    [cached |-> cached, ping |-> ping, connect |-> connect, returned |-> returned,
     raised |-> raised]

\* get_db_connection without the outer try: a failing connect propagates
get_db_connection_unguarded(cached, ping, connectOk, fresh) ==
    IF cached # NoConnection /\ ping # "raised"
    THEN ConnectionResult(cached, ping, "none", cached, FALSE)
    ELSE ConnectionResult(cached, IF cached = NoConnection THEN "none" ELSE ping,
                          IF connectOk THEN "ok" ELSE "raised",
                          IF connectOk THEN fresh ELSE NoConnection, ~connectOk)

\* get_db_connection: cached is the global db_connection, fresh the handle
\* that pymysql.connect returns when it succeeds.  The global is assigned
\* only by a connect that succeeds: its value afterwards is `returned`, or
\* the old handle when None is returned.
get_db_connection(cached, ping, connectOk, fresh) ==
    IF cached # NoConnection /\ ping # "raised"
    THEN ConnectionResult(cached, ping, "none", cached, FALSE)
    ELSE ConnectionResult(cached, IF cached = NoConnection THEN "none" ELSE ping,
                          IF connectOk THEN "ok" ELSE "raised",
                          IF connectOk THEN fresh ELSE NoConnection, FALSE)

\* The global db_connection after the call
CachedAfter(c) == IF c.returned = NoConnection THEN c.cached ELSE c.returned

\* How the body of execute_db_query can go once it has a connection
QueryOutcomes == {"ok", "execute_raised", "commit_raised"}

\* execute_db_query(query, params, fetch, commit) on the connection that
\* get_db_connection returned: the value returned (the rows fetched, the
\* number of affected rows, or None), and what was called on the way
execute_db_query(c, fetch, commit, outcome) ==
    IF c.raised
    THEN [result |-> None, ran |-> FALSE, committed |-> FALSE, rolled_back |-> FALSE,
          raised |-> TRUE]
    ELSE IF c.returned = NoConnection
    THEN [result |-> None, ran |-> FALSE, committed |-> FALSE, rolled_back |-> FALSE,
          raised |-> FALSE]
    ELSE IF outcome = "ok" \/ (outcome = "commit_raised" /\ ~commit)
    THEN [result |-> IF fetch THEN "rows" ELSE "affected_rows", ran |-> TRUE,
          committed |-> commit, rolled_back |-> FALSE, raised |-> FALSE]
    ELSE [result |-> None, ran |-> TRUE, committed |-> FALSE, rolled_back |-> commit,
          raised |-> FALSE]

\* The record of the last call of one of the two helpers
NoDbCall ==
    [op |-> "none", connection |-> ConnectionResult(NoConnection, "none", "none", NoConnection, FALSE),
     fetch |-> FALSE, commit |-> FALSE,
     query |-> [result |-> None, ran |-> FALSE, committed |-> FALSE, rolled_back |-> FALSE,
                raised |-> FALSE],
     opened |-> 0]

\* A caller that takes the connection itself (take_score_snapshot,
\* import_mappings_from_csv)
TakeConnection ==
    /\ dbObs.opened < MaxConnects
    /\ \E ping \in PingOutcomes(db_socket), connectOk \in BOOLEAN :
          LET c == get_db_connection(db_connection, ping, connectOk, dbObs.opened + 1)
          IN  /\ db_connection' = CachedAfter(c)
              /\ db_socket' = SocketAfter(c, db_socket)
              /\ dbObs' = [NoDbCall EXCEPT
                             !.op = "get_db_connection", !.connection = c,
                             !.opened = dbObs.opened + (IF c.connect = "ok" THEN 1 ELSE 0)]
    /\ UNCHANGED <<scoreVars, mapVars, snapVars, roleVars, cmdVars, clockVars, feedVars,
                   procVars, viewVars>>

\* The server closes the connection (wait_timeout, a restart) or the
\* network drops it; the handle stays cached
ConnectionLost ==
    /\ db_socket = "open"
    /\ db_socket' = "closed"
    /\ UNCHANGED <<db_connection, dbObs>>
    /\ UNCHANGED <<scoreVars, mapVars, snapVars, roleVars, cmdVars, clockVars, feedVars,
                   procVars, viewVars>>

\* A call of execute_db_query
RunQuery ==
    /\ dbObs.opened < MaxConnects
    /\ \E ping \in PingOutcomes(db_socket), connectOk \in BOOLEAN, fetch \in BOOLEAN,
          commit \in BOOLEAN, outcome \in QueryOutcomes :
          LET c == get_db_connection(db_connection, ping, connectOk, dbObs.opened + 1)
          IN  /\ db_connection' = CachedAfter(c)
              /\ db_socket' = SocketAfter(c, db_socket)
              /\ dbObs' = [op |-> "execute_db_query", connection |-> c,
                           fetch |-> fetch, commit |-> commit,
                           query |-> execute_db_query(c, fetch, commit, outcome),
                           opened |-> dbObs.opened + (IF c.connect = "ok" THEN 1 ELSE 0)]
    /\ UNCHANGED <<scoreVars, mapVars, snapVars, roleVars, cmdVars, clockVars, feedVars,
                   procVars, viewVars>>

(***************************************************************************)
(* The parts of the program at rest                                        *)
(***************************************************************************)
NoMapObservation ==
    [op |-> "none", twitch |-> None, ok |-> FALSE, result |-> None, replaced |-> FALSE]

\* The guild as the bot finds it: get_guild, the champion roles that exist,
\* get_channel(NOTIFICATION_CHANNEL_ID)
TheGuild == [found |-> TRUE, roles |-> ChampionRoles, channel |-> TRUE]

\* d1 is the member with the admin role
AdminOnly == [m \in Members |-> IF m = "d1" THEN {ADMIN_ROLE} ELSE {}]
QuietScores ==
    /\ scores = <<>>
    /\ csvFile = NoFile
    /\ obs = NoObservation
QuietMap ==
    /\ user_mapping = <<>>
    /\ lastWrite = [t \in Users |-> None]
    /\ mapObs = NoMapObservation
QuietSnapshots == score_snapshots = <<>>
QuietRoles ==
    /\ guild = TheGuild
    /\ memberRoles = AdminOnly
    /\ pc = [h \in Handlers |-> "idle"]
    /\ run = [h \in Handlers |-> NoRun]
QuietCommands ==
    /\ inv = NoInvocation
    /\ sent = <<>>
    /\ effects = {}
    /\ budget = 0
\* No iteration of the timer is due
QuietClock ==
    /\ now = WeekStart
    /\ ticked = TRUE
    /\ announced = 0
    /\ weekly = NoWeekly
QuietFeeds ==
    /\ live_status = NoLiveStatus
    /\ twitch_log = [c \in TWITCH_CHANNELS |-> <<>>]
    /\ last_video = None
    /\ youtube_log = <<>>
QuietProcesses ==
    /\ instance = [p \in Processes |-> NoInstance]
    /\ flock = None
QuietView == view = NoView
QuietConnection ==
    /\ db_connection = NoConnection
    /\ db_socket = "none"
    /\ dbObs = NoDbCall

(***************************************************************************)
(* SpecScores: the score commands over every small table and CSV file      *)
(***************************************************************************)
CsvFiles ==
    {NoFile}
    \cup {CsvFile(c, t) : c \in {DbCols, LegacyCols}, t \in CsvTables}
    \cup {[exists |-> TRUE, readable |-> FALSE, cols |-> {}, rows |-> <<>>]}

InitScores ==
    /\ scores \in Tables
    /\ csvFile \in CsvFiles
    /\ obs = NoObservation
    /\ QuietMap /\ QuietSnapshots /\ QuietRoles /\ QuietCommands /\ QuietClock
    /\ QuietFeeds /\ QuietProcesses /\ QuietView /\ QuietConnection

NextScores == leaderboard \/ total_leaderboard

SpecScores == InitScores /\ [][NextScores]_vars

\* C4: the entries that ?leaderboard shows are the stored rows of the most
\* recent date, grouped by user with each user's scores summed, in
\* descending order of the score.
C4_LeaderboardGroupedSummedSorted ==
    (obs.op = "leaderboard" /\ obs.reply = ViewReply)
        => obs.shown \in SortValuesDesc(GroupBySum(LeaderboardRows(obs.frame), UserSeq))

\* C5: ?total_leaderboard shows every user at most once, with the sum of all
\* of the user's rows, in descending order of the score, for every table.
C5_TotalOneEntryPerUser ==
    (obs.op = "total_leaderboard" /\ obs.reply = ViewReply)
        => obs.shown \in SortValuesDesc(GroupBySum(obs.frame.rows, UserSeq))

\* C6: get_scores_from_external_db returns the rows of the database when the
\* query succeeds, else the CSV file's contents when the file exists and can
\* be read, else an empty frame, on which the command says that there are no
\* scores.
C6_FallbackChainInOrder ==
    obs.op # "none" =>
        /\ obs.res.ok => obs.df.rows = obs.res.rows
        /\ (~obs.res.ok /\ obs.csvBefore.exists /\ obs.csvBefore.readable)
              => obs.df = DataFrame(obs.csvBefore.cols, obs.csvBefore.rows)
        /\ (~obs.res.ok /\ ~(obs.csvBefore.exists /\ obs.csvBefore.readable))
              => (IsEmpty(obs.df) /\ obs.reply = NoScoresMessage)

\* C15: whenever the query succeeds, with rows or with none, the frame that
\* get_scores_from_external_db returns is the result of the query, and the
\* CSV file is not read.
C15_CsvOnlyWhenDatabaseDown ==
    (obs.op \in {"leaderboard", "total_leaderboard"} /\ obs.res.ok) =>
        IF obs.res.rows = <<>> THEN IsEmpty(obs.df)
        ELSE obs.df = DataFrame(DbCols, obs.res.rows)

(***************************************************************************)
(* SpecMap: writes to and lookups in user_mapping                          *)
(***************************************************************************)
InitMap ==
    /\ QuietScores /\ QuietMap /\ QuietSnapshots /\ QuietRoles /\ QuietCommands /\ QuietClock
    /\ QuietFeeds /\ QuietProcesses /\ QuietView /\ QuietConnection

NextMap ==
    \/ \E t \in Users, d \in DiscordIds : map_twitch_to_discord(t, d)
    \/ import_mappings_from_csv
    \/ \E t \in Users : LookupDiscordId(t)

SpecMap == InitMap /\ [][NextMap]_vars

\* C7: after any sequence of writes by map_twitch_to_discord and
\* import_mappings_from_csv, user_mapping has at most one row per Twitch
\* username, and a lookup that succeeds returns the Discord ID of the last
\* successful write for the username (None if there was none): a write
\* inserts or updates, and never duplicates or deletes.
C7_OneRowPerUsernameLastWriteWins ==
    /\ \A t \in Users :
          /\ Cardinality({i \in DOMAIN user_mapping : user_mapping[i].twitch_username = t}) <= 1
          /\ get_discord_id_from_twitch(user_mapping, TRUE, t) = lastWrite[t]
    /\ (mapObs.op = "get" /\ mapObs.ok) => mapObs.result = lastWrite[mapObs.twitch]

\* A write that replaced the ID of a username already in the table, beside
\* another username's row, after which the lookup gives the new ID
C7_Witness_Overwritten ==
    /\ mapObs.op = "map" /\ mapObs.replaced
    /\ Len(user_mapping) = 2
    /\ get_discord_id_from_twitch(user_mapping, TRUE, mapObs.twitch) = mapObs.result

(***************************************************************************)
(* Spec: the weekly iteration and one ?update_roles, interleaved           *)
(***************************************************************************)
\* Two users with a score each on the same day
RaceTables ==
    {<<[Username |-> "u1", Score |-> a, RecentDate |-> <<2, 0>>],
       [Username |-> "u2", Score |-> b, RecentDate |-> <<2, 0>>]>> : a, b \in ScoreValues}

\* u1 is linked to the member d1; u2 to d2, to d3 who has left, or to nobody
RaceMappings ==
    {<<MappingRow("u1", "d1")>>} \cup {<<MappingRow("u1", "d1"), MappingRow("u2", d)>> :
                                          d \in {"d2", "d3"}}

\* Nobody is champion yet, or d1 is, or d2 is
RaceAssignments ==
    {AdminOnly} \cup {[AdminOnly EXCEPT ![m] = @ \cup ChampionRoles] : m \in Members}

Init ==
    /\ scores \in RaceTables
    /\ csvFile = NoFile
    /\ obs = NoObservation
    /\ user_mapping \in RaceMappings
    /\ lastWrite = [t \in Users |-> get_discord_id_from_twitch(user_mapping, TRUE, t)]
    /\ mapObs = NoMapObservation
    /\ QuietSnapshots
    /\ guild = TheGuild
    /\ memberRoles \in RaceAssignments
    /\ pc = [h \in Handlers |-> "idle"]
    /\ run = [h \in Handlers |-> NoRun]
    /\ inv = NoInvocation
    /\ sent = <<>>
    /\ effects = {}
    /\ budget = 1
    /\ now = Time(6, 1, 0)
    /\ ticked = FALSE
    /\ announced = 0
    /\ weekly = NoWeekly
    /\ QuietFeeds /\ QuietProcesses /\ QuietView /\ QuietConnection

Next ==
    \/ schedule_weekly_update
    \/ ResumeTask
    \/ \E m \in Members : Dispatch(m, "update_roles", NoArgs)
    \/ ResumeCommand

Spec == Init /\ [][Next]_vars

Holders(role) == {m \in Members : role \in memberRoles[m]}

\* The users at the top of a ranking of the rows: each user's scores summed
TopRanked(rows) ==
    LET totals == Range(GroupBySum(rows, UserSeq))
    IN  {t.Username : t \in {x \in totals : \A y \in totals : y.Score <= x.Score}}

\* The rows of the window of a champion role
Window(role, rows) == IF role = WEEKLY_CHAMPION_ROLE THEN RecentByDay(rows) ELSE rows

\* The Discord ID the run worked with for a role
ChampionId(r, role) == IF role = WEEKLY_CHAMPION_ROLE THEN r.weekly_id ELSE r.all_time_id

\* C1: when a run of update_champion_roles has completed, and no other
\* handler has changed a role since, each champion role is held by exactly
\* one member, the member linked to a top-ranked user of the role's window.
C1_ExactlyOneHolderTopRanked ==
    \A h \in Handlers :
        (run[h].result = "completed" /\ ~run[h].stale) =>
            \A role \in ChampionRoles :
                \E u \in TopRanked(Window(role, run[h].rows)) :
                    /\ get_discord_id_from_twitch(run[h].mapping, TRUE, u) \in Members
                    /\ Holders(role) = {get_discord_id_from_twitch(run[h].mapping, TRUE, u)}

\* C2 as claimed: a run that no other handler overlapped made no call for a
\* member who held a role at its start and is the role's champion, and it
\* removed a role only from members who are not the role's champion.
C2_MinimalDiff ==
    \A h \in Handlers :
        (run[h].result = "completed" /\ ~run[h].overlapped) =>
            \A i \in DOMAIN run[h].calls :
                LET c == run[h].calls[i]
                IN  /\ c.op = "remove_roles" => c.member # ChampionId(run[h], c.role)
                    /\ c.op = "add_roles" => c.role \notin run[h].start[c.member]

\* The calls of a run that removes the role from all its holders and then
\* grants it to the champion
RemovalsOf(r) ==
    {[op |-> "remove_roles", member |-> m, role |-> role] :
        m \in Members, role \in ChampionRoles} \cap
    {c \in [op : {"remove_roles"}, member : Members, role : ChampionRoles] :
        c.role \in r.start[c.member]}
GrantsOf(r) ==
    {c \in [op : {"add_roles"}, member : Members, role : ChampionRoles] :
        c.member = ChampionId(r, c.role)}

\* C2, amended: update_champion_roles does not diff.  Its calls are removals
\* of champion roles followed by grants to its champions, none of them made
\* twice; and a run that no other handler overlapped has called remove_roles
\* for every member and champion role held at its start, the continuing
\* champion included, and add_roles for each champion who is a guild member,
\* and has made no other call.
C2_RemoveFromAllThenGrant ==
    \A h \in Handlers :
        LET r == run[h]
        IN  /\ \A i \in DOMAIN r.calls :
                  /\ r.calls[i].role \in ChampionRoles
                  /\ r.calls[i].op = "add_roles" =>
                        r.calls[i].member = ChampionId(r, r.calls[i].role)
                  /\ \A j \in DOMAIN r.calls :
                        i < j => /\ r.calls[i] # r.calls[j]
                                 /\ r.calls[i].op = "add_roles" => r.calls[j].op = "add_roles"
            /\ (r.result = "completed" /\ ~r.overlapped) =>
                  Range(r.calls) = RemovalsOf(r) \cup GrantsOf(r)

\* A run on its own that took the role from the member who stays champion
\* and granted it to the same member again
C2_Witness_ChampionRemovedAndGranted ==
    \E h \in Handlers :
        /\ run[h].result = "completed" /\ ~run[h].overlapped
        /\ \E role \in ChampionRoles :
              LET id == ChampionId(run[h], role)
              IN  /\ id \in Members
                  /\ role \in run[h].start[id]
                  /\ [op |-> "remove_roles", member |-> id, role |-> role] \in Range(run[h].calls)
                  /\ [op |-> "add_roles", member |-> id, role |-> role] \in Range(run[h].calls)

InProgress == {h \in Handlers : pc[h] \notin {"idle", "stopped"}}

Stepped(h) == pc'[h] # pc[h] \/ run'[h].calls # run[h].calls \/ run'[h].result # run[h].result

C16_AnnouncedOnlyWhenDone ==
    /\ announced > 0 => (weekly.snapshot /\ run["task"].result = "completed")
    /\ "Roles Updated" \in Range(sent) => run["cmd"].result = "completed"

(***************************************************************************)
(* SpecCmd: one message with the prefix, from either member                *)
(***************************************************************************)
\* Each behaviour handles one message.  With the database down,
\* ?update_roles reads the CSV file; a file in the old layout has no
\* RecentDate column
InitCmd ==
    /\ scores \in RaceTables \cup {<<>>}
    /\ csvFile \in {NoFile, CsvFile(LegacyCols, <<[Username |-> "u1", Score |-> 1,
                                                      RecentDate |-> <<1, 0>>]>>)}
    /\ obs = NoObservation
    /\ user_mapping \in {<<>>, <<MappingRow("u1", "d2")>>}
    /\ lastWrite = [t \in Users |-> get_discord_id_from_twitch(user_mapping, TRUE, t)]
    /\ mapObs = NoMapObservation
    /\ QuietSnapshots
    /\ guild = TheGuild
    /\ memberRoles \in RaceAssignments
    /\ pc = [h \in Handlers |-> "idle"]
    /\ run = [h \in Handlers |-> NoRun]
    /\ inv = NoInvocation
    /\ sent = <<>>
    /\ effects = {}
    /\ budget = 1
    /\ QuietClock
    /\ QuietFeeds /\ QuietProcesses /\ QuietView /\ QuietConnection

NextCmd ==
    \/ \E m \in Members, c \in Typed : \E a \in Args(c) : Dispatch(m, c, a)
    \/ ResumeCommand

SpecCmd == InitCmd /\ [][NextCmd]_vars

\* C8: a command that fails with a missing role, an unknown name, a missing
\* argument or any other error gets exactly one message, the embed whose
\* title goes with the kind of the error.
C8_OneMessagePerFailure ==
    inv.error # "none" =>
        sent = <<IF inv.error = "MissingRole" THEN "Permission Denied"
                 ELSE IF inv.error = "CommandNotFound" THEN "Command Not Found"
                 ELSE IF inv.error = "MissingRequiredArgument" THEN "Missing Argument"
                 ELSE "Error">>

\* The body of ?update_roles raised, and the invoker got the one 'Error' embed
C8_Witness_BodyRaised ==
    /\ inv.cmd = "update_roles"
    /\ inv.error = "CommandInvokeError"
    /\ run["cmd"].result = "raised"
    /\ Len(sent) = 1

\* C9: a command of the 'Admin Commands' page invoked by a member without
\* the role 'Roll With Advantage!' does not run its body, makes no external
\* call, and gets the 'Permission Denied' embed.
C9_AdminCommandsGated ==
    (inv.cmd \in admin_commands /\ ADMIN_ROLE \notin memberRoles[inv.invoker]) =>
        (~inv.ran /\ effects = {} /\ sent = <<"Permission Denied">>)

(***************************************************************************)
(* SpecClock: the timer loop through the minutes of the week               *)
(***************************************************************************)
InitClock ==
    /\ scores = <<[Username |-> "u1", Score |-> 1, RecentDate |-> <<1, 0>>]>>
    /\ csvFile = NoFile
    /\ obs = NoObservation
    /\ user_mapping = <<MappingRow("u1", "d2")>>
    /\ lastWrite = [t \in Users |-> get_discord_id_from_twitch(user_mapping, TRUE, t)]
    /\ mapObs = NoMapObservation
    /\ QuietSnapshots
    /\ QuietRoles
    /\ QuietCommands
    /\ now \in Times
    /\ ticked = FALSE
    /\ announced = 0
    /\ weekly = [NoWeekly EXCEPT !.whole = (now = WeekStart)]
    /\ QuietFeeds /\ QuietProcesses /\ QuietView /\ QuietConnection

NextClock == schedule_weekly_update \/ ResumeTask \/ ClockAdvance

SpecClock == InitClock /\ [][NextClock]_vars

\* At or after the iteration of Sunday 01:00
UpdateDue ==
    /\ now.weekday = 6
    /\ now.hour >= 1
    /\ (now.hour = 1 /\ now.minute = 0) => ticked

InitTwitch ==
    /\ QuietScores /\ QuietMap /\ QuietSnapshots /\ QuietRoles /\ QuietCommands /\ QuietClock
    /\ QuietFeeds /\ QuietProcesses /\ QuietView /\ QuietConnection

NextTwitch == check_twitch_streams

SpecTwitch == InitTwitch /\ [][NextTwitch]_vars

\* C11: between two live notifications for the same channel there is a poll
\* that observed the channel offline, whatever the polls in between fetched.
C11_NotifiedOnlyAfterOffline ==
    \A c \in TWITCH_CHANNELS :
        \A i, j \in DOMAIN twitch_log[c] :
            (i < j /\ twitch_log[c][i] = "notified" /\ twitch_log[c][j] = "notified")
                => \E k \in (i + 1)..(j - 1) : twitch_log[c][k] = "offline"

(***************************************************************************)
(* SpecYoutube: the polls of check_youtube_videos                          *)
(***************************************************************************)
InitYoutube ==
    /\ QuietScores /\ QuietMap /\ QuietSnapshots /\ QuietRoles /\ QuietCommands /\ QuietClock
    /\ QuietFeeds /\ QuietProcesses /\ QuietView /\ QuietConnection

NextYoutube == check_youtube_videos

SpecYoutube == InitYoutube /\ [][NextYoutube]_vars

\* C12: the last-video file is absent while nothing was notified, and once a
\* video was notified it holds the ID of the video notified last; it never
\* holds an ID that was not announced.
C12_FileHoldsLastNotified ==
    /\ youtube_log = <<>> => last_video = None
    /\ youtube_log # <<>> => last_video = youtube_log[Len(youtube_log)]
    /\ last_video # None => last_video \in Range(youtube_log)

(***************************************************************************)
(* SpecLock: processes started side by side                                *)
(***************************************************************************)
InitLock ==
    /\ QuietScores /\ QuietMap /\ QuietSnapshots /\ QuietRoles /\ QuietCommands /\ QuietClock
    /\ QuietFeeds /\ QuietProcesses /\ QuietView /\ QuietConnection

NextLock ==
    \E p \in Processes :
        \/ StartProcess(p)
        \/ TryLock(p)
        \/ ExitRefused(p)
        \/ CreateTables(p)
        \/ RunBot(p)
        \/ EndProcess(p)

SpecLock == InitLock /\ [][NextLock]_vars

\* The processes past the lock: they create the tables and run the bot
PastLock == {p \in Processes : instance[p].at \in {"locked", "tables", "running"}}

\* C13: at most one process is past the lock at a time, and it holds the
\* lock; a process that found the lock held exits without having created
\* tables or connected to Discord.
C13_AtMostOneInstance ==
    /\ Cardinality(PastLock) <= 1
    /\ \A p \in PastLock : flock = p
    /\ \A p \in Processes :
          /\ (instance[p].tables \/ instance[p].connected) =>
                instance[p].at \in {"tables", "running", "ended"}
          /\ instance[p].at \in {"refused", "exited"} =>
                (~instance[p].tables /\ ~instance[p].connected /\ flock # p)

\* One process runs the bot, and another, started meanwhile, has exited
\* without creating tables or connecting
C13_Witness_SecondExited ==
    \E p, q \in Processes :
        /\ instance[p].at = "running" /\ flock = p
        /\ instance[q].at = "exited"
        /\ ~instance[q].tables /\ ~instance[q].connected

(***************************************************************************)
(* SpecSession: ?session_leaderboard over small tables and snapshots       *)
(***************************************************************************)
\* A weekly snapshot is the rows of some earlier score table, or none yet
WeeklySnapshots ==
    {[i \in DOMAIN tb |-> SnapshotRow(tb[i], "weekly")] : tb \in Tables}

InitSession ==
    /\ scores \in Tables
    /\ csvFile \in {NoFile, CsvFile(DbCols, <<[Username |-> "u1", Score |-> 2,
                                               RecentDate |-> <<1, 0>>]>>)}
    /\ obs = NoObservation
    /\ score_snapshots \in WeeklySnapshots
    /\ QuietMap /\ QuietRoles /\ QuietCommands /\ QuietClock
    /\ QuietFeeds /\ QuietProcesses /\ QuietView /\ QuietConnection

NextSession == session_leaderboard

SpecSession == InitSession /\ [][NextSession]_vars

\* The scores a user has in the weekly snapshot: 0 for a user without a row
SnapshotScores(u) ==
    LET mine == {s \in Range(SnapshotsOf(score_snapshots, "weekly")) : s.username = u}
    IN  IF mine = {} THEN {0} ELSE {s.score : s \in mine}

\* C14: the frame of get_session_scores has one row per row of the current
\* scores; with a weekly snapshot in the table its SessionScore is
\* max(0, current - snapshot), the snapshot counting 0 for a user it lacks;
\* with no snapshot it is the current score; so 0 <= SessionScore <= current.
C14_SessionScoreIsDifference ==
    (obs.op = "session_leaderboard" /\ obs.reply = ViewReply) =>
        LET current == obs.df.rows
            session == obs.frame.rows
        IN  /\ Len(session) = Len(current)
            /\ \A i \in DOMAIN session :
                  /\ i \in DOMAIN current
                  /\ session[i].Username = current[i].Username
                  /\ IF SnapshotsOf(score_snapshots, "weekly") = <<>>
                     THEN session[i].SessionScore = current[i].Score
                     ELSE session[i].SessionScore \in
                             {NotNegative(current[i].Score - v) :
                                 v \in SnapshotScores(current[i].Username)}
                  /\ 0 <= session[i].SessionScore
                  /\ session[i].SessionScore <= current[i].Score

(***************************************************************************)
(* SpecSnapshot: ?take_snapshot, twice, on a table that holds snapshots    *)
(***************************************************************************)
OldWeeklyRow == [username |-> "u2", score |-> 2, snapshot_type |-> "weekly"]
OtherTypeRow == [username |-> "u1", score |-> 1, snapshot_type |-> "manual"]

InitSnapshot ==
    /\ scores \in Tables
    /\ csvFile \in {NoFile, CsvFile(DbCols, <<[Username |-> "u1", Score |-> 2,
                                               RecentDate |-> <<1, 0>>]>>)}
    /\ obs = NoObservation
    /\ score_snapshots \in {<<OldWeeklyRow, OtherTypeRow>>, <<OtherTypeRow, OldWeeklyRow>>,
                            <<OldWeeklyRow, OtherTypeRow, OldWeeklyRow>>}
    /\ QuietMap /\ QuietRoles /\ QuietClock
    /\ QuietFeeds /\ QuietProcesses /\ QuietView /\ QuietConnection
    /\ inv = NoInvocation
    /\ sent = <<>>
    /\ effects = {}
    /\ budget = 2

NextSnapshot == \E m \in Members : Dispatch(m, "take_snapshot", NoArgs)

SpecSnapshot == InitSnapshot /\ [][NextSnapshot]_vars

\* The rows that a snapshot of the frame df consists of
SnapshotImage(df, type) == [i \in DOMAIN df.rows |-> SnapshotRow(df.rows[i], type)]

Guilds == {[found |-> f, roles |-> rs, channel |-> TRUE] :
              f \in BOOLEAN, rs \in SUBSET ChampionRoles}

\* Nobody, d1 or d2 holds the champion roles that exist in the guild g
AssignmentsIn(g) ==
    {AdminOnly} \cup {[AdminOnly EXCEPT ![m] = @ \cup (ChampionRoles \cap g.roles)] :
                         m \in Members}

InitRoles ==
    /\ scores \in RaceTables \cup {<<>>}
    /\ csvFile = NoFile
    /\ obs = NoObservation
    /\ user_mapping \in RaceMappings
    /\ lastWrite = [t \in Users |-> get_discord_id_from_twitch(user_mapping, TRUE, t)]
    /\ mapObs = NoMapObservation
    /\ QuietSnapshots
    /\ guild \in Guilds
    /\ memberRoles \in AssignmentsIn(guild)
    /\ pc = [h \in Handlers |-> "idle"]
    /\ run = [h \in Handlers |-> NoRun]
    /\ inv = NoInvocation
    /\ sent = <<>>
    /\ effects = {}
    /\ budget = 1
    /\ QuietClock
    /\ QuietFeeds /\ QuietProcesses /\ QuietView /\ QuietConnection

NextRoles ==
    \/ \E m \in Members : Dispatch(m, "update_roles", NoArgs)
    \/ ResumeCommand

SpecRoles == InitRoles /\ [][NextRoles]_vars

\* The user whose row the run ranked first in the window of a role
ChampionTwitch(r, role) ==
    IF role = WEEKLY_CHAMPION_ROLE THEN r.weekly_twitch ELSE r.all_time_twitch

\* C18: when the run has completed and the user it ranked first for a role
\* has no row in user_mapping, or a row whose ID is not a guild member's,
\* no member holds the role.
C18_UnmappedChampionLeavesRoleVacant ==
    run["cmd"].result = "completed" =>
        \A role \in ChampionRoles :
            get_discord_id_from_twitch(run["cmd"].mapping, TRUE,
                                       ChampionTwitch(run["cmd"], role)) \notin Members
                => Holders(role) = {}

\* The weekly role was held at the start, the user ranked first is linked to
\* nobody in the guild, and the run has taken the role away and completed
C18_Witness_HolderLostRole ==
    LET r == run["cmd"]
    IN  /\ r.result = "completed"
        /\ get_discord_id_from_twitch(r.mapping, TRUE, r.weekly_twitch) \notin Members
        /\ \E m \in Members :
              /\ WEEKLY_CHAMPION_ROLE \in r.start[m]
              /\ [op |-> "remove_roles", member |-> m, role |-> WEEKLY_CHAMPION_ROLE]
                    \in Range(r.calls)
        /\ Holders(WEEKLY_CHAMPION_ROLE) = {}

EarlyReturns == {"no_guild", "no_scores", "no_roles"}

\* C20: when update_champion_roles has returned early (no guild, no scores,
\* a champion role missing) it has made no role call and every member holds
\* the roles held before.
C20_EarlyReturnChangesNoRole ==
    run["cmd"].result \in EarlyReturns =>
        /\ run["cmd"].calls = <<>>
        /\ memberRoles = run["cmd"].start
        /\ "roles" \notin effects

\* The weekly role does not exist in the guild; the run has returned early,
\* and the member who held the all-time role holds it still
C20_Witness_RoleMissing ==
    /\ run["cmd"].result = "no_roles"
    /\ guild.found /\ WEEKLY_CHAMPION_ROLE \notin guild.roles
    /\ run["cmd"].rows # <<>>
    /\ Holders(ALL_TIME_CHAMPION_ROLE) # {}
    /\ memberRoles = run["cmd"].start

(***************************************************************************)
(* SpecOverlap: the weekly iteration and ?update_roles, interleaved, while *)
(* a member links a Twitch name anew                                       *)
(***************************************************************************)
\* u1 is ahead of u2, with no tie; u1 is linked to d1 and u2 to d2.  The
\* modal of the link button writes a new row for u1 at any time.
InitOverlap ==
    /\ scores = <<[Username |-> "u1", Score |-> 2, RecentDate |-> <<2, 0>>],
                  [Username |-> "u2", Score |-> 1, RecentDate |-> <<2, 0>>]>>
    /\ csvFile = NoFile
    /\ obs = NoObservation
    /\ user_mapping = <<MappingRow("u1", "d1"), MappingRow("u2", "d2")>>
    /\ lastWrite = [t \in Users |-> get_discord_id_from_twitch(user_mapping, TRUE, t)]
    /\ mapObs = NoMapObservation
    /\ QuietSnapshots
    /\ guild = TheGuild
    /\ memberRoles \in RaceAssignments
    /\ pc = [h \in Handlers |-> "idle"]
    /\ run = [h \in Handlers |-> NoRun]
    /\ inv = NoInvocation
    /\ sent = <<>>
    /\ effects = {}
    /\ budget = 1
    /\ now = Time(6, 1, 0)
    /\ ticked = FALSE
    /\ announced = 0
    /\ weekly = NoWeekly
    /\ QuietFeeds /\ QuietProcesses /\ QuietView /\ QuietConnection

NextOverlap ==
    \/ schedule_weekly_update
    \/ ResumeTask
    \/ \E m \in Members : Dispatch(m, "update_roles", NoArgs)
    \/ ResumeCommand
    \/ \E d \in Members : map_twitch_to_discord("u1", d)

SpecOverlap == InitOverlap /\ [][NextOverlap]_vars

\* C19: when the weekly run and a manual run of update_champion_roles have
\* overlapped, reading different mappings, and both have completed, at most
\* one member holds each champion role.
C19_OverlapLeavesOneHolder ==
    (/\ \A h \in Handlers : run[h].result = "completed"
     /\ \E h \in Handlers : run[h].overlapped
     /\ run["task"].mapping # run["cmd"].mapping)
        => \A role \in ChampionRoles : Cardinality(Holders(role)) <= 1

(***************************************************************************)
(* SpecRank: ?leaderboard and one ?update_roles over the same table        *)
(***************************************************************************)
\* u1 is linked to the member d1 and u2 to d2
BothLinked == <<MappingRow("u1", "d1"), MappingRow("u2", "d2")>>

InitRank ==
    /\ scores \in Tables \ {<<>>}
    /\ csvFile = NoFile
    /\ obs = NoObservation
    /\ user_mapping = BothLinked
    /\ lastWrite = [t \in Users |-> get_discord_id_from_twitch(user_mapping, TRUE, t)]
    /\ mapObs = NoMapObservation
    /\ QuietSnapshots
    /\ QuietRoles
    /\ inv = NoInvocation
    /\ sent = <<>>
    /\ effects = {}
    /\ budget = 1
    /\ QuietClock
    /\ QuietFeeds /\ QuietProcesses /\ QuietView /\ QuietConnection

NextRank ==
    \/ leaderboard
    \/ Dispatch("d1", "update_roles", NoArgs)
    \/ ResumeCommand

SpecRank == InitRank /\ [][NextRank]_vars

\* The run of ?update_roles and the last ?leaderboard worked on the same
\* frame of database rows
SameScoreTable ==
    /\ run["cmd"].weekly_twitch # None
    /\ obs.op = "leaderboard"
    /\ obs.reply = ViewReply
    /\ obs.frame = DataFrame(DbCols, run["cmd"].rows)

\* C21: when update_champion_roles and ?leaderboard have read the same score
\* table, the user the run chose as weekly champion is shown by ?leaderboard
\* with the score of rank 1 (at rank 1, or level with it when scores tie).
C21_ChampionIsRankOne ==
    SameScoreTable =>
        \E i \in DOMAIN obs.shown :
            /\ obs.shown[i].Username = run["cmd"].weekly_twitch
            /\ obs.shown[i].Score = obs.shown[1].Score

(***************************************************************************)
(* Ties for the top score, under Spec                                      *)
(***************************************************************************)
\* The rows among which a run picks the champion of a role
RunWindow(role, rows) == IF role = WEEKLY_CHAMPION_ROLE THEN MostRecentRows(rows) ELSE rows

\* The users who have a row with the highest score of the rows
TiedAtTop(rows) ==
    {r.Username : r \in {x \in Range(rows) : \A y \in Range(rows) : y.Score <= x.Score}}

\* The lookup of the role's champion in user_mapping did not fail
LookedUp(r, role) ==
    ChampionId(r, role) = get_discord_id_from_twitch(r.mapping, TRUE, ChampionTwitch(r, role))

InitView ==
    /\ QuietScores /\ QuietMap /\ QuietSnapshots /\ QuietRoles /\ QuietCommands /\ QuietClock
    /\ QuietFeeds /\ QuietProcesses /\ QuietConnection
    /\ view \in {LeaderboardView(n, t) : n \in 1..MaxViewRows, t \in BOOLEAN}

NextView == prev_button \/ next_button \/ page_indicator \/ toggle_button

SpecView == InitView /\ [][NextView]_vars

\* ceil(a / b) for a >= 0 and b > 0: the least n with n * b >= a
Ceil(a, b) == CHOOSE n \in 0..a : n * b >= a /\ \A k \in 0..a : k * b >= a => n <= k

\* C23: in a LeaderboardView, after any clicks on Previous, Next, the page
\* indicator and the toggle, max_pages = max(1, ceil(rows / page_size)) and
\* 0 <= page <= max_pages - 1; a click on Previous on the first page and a
\* click on Next on the last page leave the page as it was.
C23_PageWithinBounds ==
    view.sent =>
        /\ view.max_pages = (IF Ceil(view.rows, page_size) > 1
                             THEN Ceil(view.rows, page_size) ELSE 1)
        /\ 0 <= view.page
        /\ view.page <= view.max_pages - 1
        /\ (view.click = "prev_button" /\ view.before = 0) => view.page = view.before
        /\ (view.click = "next_button" /\ view.before = view.max_pages - 1)
              => view.page = view.before

\* Next was clicked on the last of several pages, and the page has stayed
C23_Witness_NextOnLastPage ==
    /\ view.sent
    /\ view.max_pages > 1
    /\ view.click = "next_button"
    /\ view.before = view.max_pages - 1
    /\ view.page = view.before
    /\ view.response = "defer"

(***************************************************************************)
(* SpecConn: calls of the database helpers while the server comes and goes *)
(***************************************************************************)
InitConn ==
    /\ QuietScores /\ QuietMap /\ QuietSnapshots /\ QuietRoles /\ QuietCommands /\ QuietClock
    /\ QuietFeeds /\ QuietProcesses /\ QuietView /\ QuietConnection

NextConn == TakeConnection \/ RunQuery \/ ConnectionLost

SpecConn == InitConn /\ [][NextConn]_vars

\* C24: a call of get_db_connection never raises; it calls pymysql.connect
\* exactly when no handle is cached or the ping of the cached handle
\* raised; otherwise it returns the cached handle, which stays cached; a
\* connect that succeeds gives a new handle, which is returned and cached;
\* a connect that fails makes it return None, and execute_db_query then
\* returns None without executing the query.
C24_SingleLazyHandle ==
    LET c == dbObs.connection
    IN  dbObs.op # "none" =>
            /\ ~c.raised /\ ~dbObs.query.raised
            /\ (c.connect # "none") <=> (c.cached = NoConnection \/ c.ping = "raised")
            /\ c.connect = "none" => (c.returned = c.cached /\ db_connection = c.cached)
            /\ c.connect = "ok" =>
                  /\ c.returned \notin {NoConnection, c.cached}
                  /\ db_connection = c.returned
            /\ c.connect = "raised" => c.returned = NoConnection
            /\ (dbObs.op = "execute_db_query" /\ c.returned = NoConnection) =>
                  /\ dbObs.query.result = None
                  /\ ~dbObs.query.ran /\ ~dbObs.query.committed /\ ~dbObs.query.rolled_back

\* A handle was cached, its ping raised and the connect failed:
\* execute_db_query has returned None without executing the query
C24_Witness_ConnectFailed ==
    /\ dbObs.op = "execute_db_query"
    /\ dbObs.connection.cached # NoConnection
    /\ dbObs.connection.ping = "raised"
    /\ dbObs.connection.connect = "raised"
    /\ dbObs.connection.returned = NoConnection
    /\ dbObs.query.result = None
    /\ ~dbObs.query.ran

====
